---------------------------- MODULE Spec2Model ----------------------------
(***************************************************************************)
(* A model of src/main.py: the "Match Masters Analysis" dashboard.         *)
(*                                                                         *)
(* The script is re-run from top to bottom by the hosting framework for    *)
(* every interaction of every browser session.  The only state shared by   *)
(* the runs is the st.cache_resource store that memoizes init_connection.  *)
(*                                                                         *)
(* Strings are sequences of tokens, so that formatting a value into a      *)
(* statement or into a cell, and decoding a JSON text, are computations.   *)
(***************************************************************************)
EXTENDS Integers, Sequences, FiniteSets

VARIABLES
    snowflake_params,      \* the dict of lines 15-22, read from the environment
    resource_cache,        \* st.cache_resource's store for init_connection (line 24)
    body_runs,             \* how many times the body of init_connection has run
    first_handle,          \* what the first call of init_connection returned
    run,                   \* per browser session: the script run in progress
    events,                \* the rows of CANDIVORE_TEST_DB.ATOMIC.EVENTS (line 48)
    stats_args,            \* the arguments of one load_data call, and the tie order
    stats_data,            \* data (line 79)
    stats_view,            \* what lines 81-113 show for it
    top_10_cities,         \* top_10_cities (line 91)
    flat_results,          \* the rows handed to the flattening step (results, line 143)
    purchase_details_df    \* what lines 163-177 make of them

Range(s) == {s[i] : i \in DOMAIN s}

NONE == "None"             \* Python's None, SQL's NULL
NaN == "NaN"               \* pandas' missing cell

-----------------------------------------------------------------------------
(* Dates and their text.  A date is a day of January 2024.                 *)

MaxDay == 2
Dates == 1..MaxDay

Digit(n) == CASE n = 0 -> "0" [] n = 1 -> "1" [] n = 2 -> "2" [] n = 3 -> "3"
              [] n = 4 -> "4" [] n = 5 -> "5" [] n = 6 -> "6" [] n = 7 -> "7"
              [] n = 8 -> "8" [] OTHER -> "9"

\* str(date) inside an f-string (lines 50) and strftime('%Y-%m-%d') (line 177)
\* give the same text: YYYY-MM-DD with the day zero-padded to two digits.
strftime(d) == <<"2024", "-", "01", "-", Digit(d \div 10), Digit(d % 10)>>

-----------------------------------------------------------------------------
(* json.loads on a payload text (line 163).  A dict keeps its keys in      *)
(* insertion order; a repeated key keeps its first place and last value.   *)

JsonKeys == {"iap_price", "item", "user_name", "purchase_date"}
JsonVals == {"1", "2"}

EmptyDict == [keys |-> <<>>, val |-> <<>>]

DictSet(d, k, v) ==
    [keys |-> IF k \in Range(d.keys) THEN d.keys ELSE Append(d.keys, k),
     val  |-> [x \in Range(d.keys) \cup {k} |-> IF x = k THEN v ELSE d.val[x]]]

JSONDecodeError == [ok |-> FALSE, dict |-> EmptyDict]

RECURSIVE ParseMembers(_, _, _)
\* s[i] is expected to start a "key : value" member followed by "," or "}".
ParseMembers(s, i, d) ==
    IF i + 3 > Len(s) \/ s[i] \notin JsonKeys \/ s[i + 1] # ":"
                      \/ s[i + 2] \notin JsonVals
    THEN JSONDecodeError
    ELSE LET d2 == DictSet(d, s[i], s[i + 2])
         IN  IF s[i + 3] = "}"
             THEN IF i + 3 = Len(s) THEN [ok |-> TRUE, dict |-> d2]
                                    ELSE JSONDecodeError
             ELSE IF s[i + 3] = "," THEN ParseMembers(s, i + 4, d2)
                                    ELSE JSONDecodeError

json_loads(s) ==
    IF Len(s) < 2 \/ s[1] # "{" THEN JSONDecodeError
    ELSE IF s[2] = "}"
         THEN IF Len(s) = 2 THEN [ok |-> TRUE, dict |-> EmptyDict]
                            ELSE JSONDecodeError
         ELSE ParseMembers(s, 2, EmptyDict)

\* lambda x: json.loads(x) if x else {}   (line 163)
decode_payload(x) ==
    IF x = <<>> THEN [ok |-> TRUE, dict |-> EmptyDict] ELSE json_loads(x)

-----------------------------------------------------------------------------
(* The rows of the user-purchase query (lines 124-139) and the tables made *)
(* of them.  A row is [purchase_date, user_name, purchase_data]; the       *)
(* fourth column, daily_purchase_amount, is read by the bar chart only.    *)
(* A DataFrame is [columns: sequence of names, rows: sequence of           *)
(* functions from the names to cells].                                     *)

FixedColumns == <<"purchase_date", "user_name">>

RECURSIVE LastSeenColumns(_, _, _)
LastSeenColumns(dicts, i, acc) ==
    IF i > Len(dicts) THEN acc
    ELSE LET ks == dicts[i].keys
             kept == SelectSeq(acc, LAMBDA c : c \notin Range(ks))
         IN  LastSeenColumns(dicts, i + 1, kept \o ks)

RECURSIVE FirstSeenColumns(_, _, _)
\* pd.DataFrame(list of dicts): the columns are the union of the keys, each
\* at the place of its first appearance (line 166).
FirstSeenColumns(dicts, i, acc) ==
    IF i > Len(dicts) THEN acc
    ELSE LET new == SelectSeq(dicts[i].keys, LAMBDA k : k \notin Range(acc))
         IN  FirstSeenColumns(dicts, i + 1, acc \o new)

\* pd.DataFrame(results['purchase_details'].tolist())   (line 166)
DataFrameFromDicts(dicts) ==
    LET cols == FirstSeenColumns(dicts, 1, <<>>)
    IN  [columns |-> cols,
         rows |-> [i \in DOMAIN dicts |->
                     [c \in Range(cols) |->
                        IF c \in Range(dicts[i].keys) THEN dicts[i].val[c]
                                                      ELSE NaN]]]

\* df[c] = series: an existing column is overwritten in place, a new one is
\* appended (lines 169, 170, 177).
SetColumn(df, c, series) ==
    [columns |-> IF c \in Range(df.columns) THEN df.columns
                                            ELSE Append(df.columns, c),
     rows |-> [i \in DOMAIN df.rows |->
                 [x \in Range(df.columns) \cup {c} |->
                    IF x = c THEN series[i] ELSE df.rows[i][x]]]]

\* cols = ['purchase_date', 'user_name'] + [the others]; df = df[cols]
\* (lines 173-174)
MoveToFront(df) ==
    [columns |-> FixedColumns \o
                 SelectSeq(df.columns, LAMBDA c : c \notin Range(FixedColumns)),
     rows |-> df.rows]

NoFrame == [columns |-> <<>>, rows |-> <<>>]
NotRun == [raised |-> FALSE, df |-> NoFrame, ran |-> FALSE]

\* Lines 163-177.  json.loads raising on any row ends the whole step: the
\* exception leaves the lambda, apply() and the try block together.
Flatten(results) ==
    LET decoded == [i \in DOMAIN results |-> decode_payload(results[i].purchase_data)]
    IN  IF \E i \in DOMAIN results : ~decoded[i].ok
        THEN [raised |-> TRUE, df |-> NoFrame]
        ELSE LET purchase_details == [i \in DOMAIN results |-> decoded[i].dict]
                 df0 == DataFrameFromDicts(purchase_details)
                 df1 == SetColumn(df0, "purchase_date",
                                  [i \in DOMAIN results |-> results[i].purchase_date])
                 df2 == SetColumn(df1, "user_name",
                                  [i \in DOMAIN results |-> results[i].user_name])
                 df3 == MoveToFront(df2)
                 df4 == SetColumn(df3, "purchase_date",
                                  [i \in DOMAIN results |->
                                     strftime(df3.rows[i]["purchase_date"])])
             IN  [raised |-> FALSE, df |-> df4]

-----------------------------------------------------------------------------
(* The payload texts and the result sets of the user-purchase query.       *)

PayloadTexts ==
    { <<>>,
      <<"{", "}">>,
      <<"{", "iap_price", ":", "1", "}">>,
      <<"{", "item", ":", "2", "}">>,
      <<"{", "iap_price", ":", "2", ",", "item", ":", "1", "}">>,
      <<"{", "item", ":", "1", ",", "iap_price", ":", "1", "}">>,
      <<"{", "user_name", ":", "1", ",", "item", ":", "2", "}">>,
      <<"{", "iap_price", ":", "1", ",", "purchase_date", ":", "2", "}">>,
      <<"{", "item", ":", "1", ",", "item", ":", "2", "}">>,
      <<"{", "iap_price", ":">>,
      <<"iap_price">> }

UserNames == {"alice", "bob"}

PurchaseRows(payloads) ==
    [purchase_date : Dates, user_name : UserNames, purchase_data : payloads]

MaxRows == 2

\* The query groups by (date, user name, payload) and orders by date
\* (lines 134-139): its rows are pairwise different and ascend in date.
IsQueryResult(rs) ==
    /\ \A i, j \in DOMAIN rs : i < j => rs[i] # rs[j]
    /\ \A i, j \in DOMAIN rs : i < j => rs[i].purchase_date <= rs[j].purchase_date

QueryResults(payloads, n) ==
    UNION { {rs \in [1..k -> PurchaseRows(payloads)] : IsQueryResult(rs)} : k \in 0..n }

-----------------------------------------------------------------------------
(* The warehouse.  An event is [id, city, ctx, event_name, derived_tstamp]: *)
(* ctx is the value of CONTEXTS_IO_CANDIVORE_USER_BASE_STATS_1:uuid, <<>>   *)
(* when the context is NULL; a timestamp counts the hours since day 0.      *)

NULL == <<>>

Ev(c, n, uuid, name, day, hour) ==
    [id |-> <<c, n>>, city |-> c, ctx |-> uuid, event_name |-> name,
     derived_tstamp |-> day * 24 + hour]

\* The events of one city, by the city's profile.
ProfileEvents(c, p) ==
    CASE p = 0 -> { Ev(c, 1, <<c * 10 + 1>>, "login", 1, 0) }
      [] p = 1 -> { Ev(c, 1, <<c * 10 + 1>>, "in_app_purchase", 1, 12),
                    Ev(c, 2, <<c * 10 + 2>>, "login", 2, 0) }
      [] p = 2 -> { Ev(c, 1, <<c * 10 + 1>>, "in_app_purchase", 1, 12),
                    Ev(c, 2, <<c * 10 + 1>>, "in_app_purchase", 1, 13),
                    Ev(c, 3, NULL, "in_app_purchase", 1, 14) }
      [] p = 3 -> { Ev(c, 1, NULL, "login", 2, 0) }
      [] OTHER -> { Ev(c, 1, <<c * 10 + 1>>, "login", MaxDay, 12),
                    Ev(c, 2, <<c * 10 + 2>>, "login", 1, 1),
                    Ev(c, 3, <<7>>, "in_app_purchase", 2, 0) }

\* The table with cities 1..n, city c having profile (c * k + o) modulo 5.
Warehouse(n, k, o) ==
    UNION { ProfileEvents(c, (c * k + o) % 5) : c \in 1..n }

-----------------------------------------------------------------------------
(* load_data (lines 40-59): the statement's text and what the warehouse    *)
(* makes of it.                                                            *)

\* The f-string of lines 41-58: the dates are formatted into the text.
load_data_query(start_date, end_date) ==
    <<"SELECT GEO_CITY as city, COUNT(DISTINCT(CONTEXTS_IO_CANDIVORE_USER_BASE_STATS_1:uuid::string)) AS number_of_users, SUM(CASE WHEN EVENT_NAME = 'in_app_purchase' THEN 1 ELSE 0 END) AS number_of_purchases FROM CANDIVORE_TEST_DB.ATOMIC.EVENTS WHERE derived_tstamp BETWEEN ",
      "'">> \o strftime(start_date) \o <<"'", " AND ", "'">> \o strftime(end_date)
    \o <<"'", " AND CONTEXTS_IO_CANDIVORE_USER_BASE_STATS_1 IS NOT NULL GROUP BY GEO_CITY ORDER BY number_of_users DESC LIMIT 10;">>

\* A date text compared with a timestamp is the midnight that starts the day.
DateAsTimestamp(d) == d * 24

WhereSymmetric(evs, start_date, end_date) ==
    { e \in evs : /\ \/ /\ DateAsTimestamp(start_date) <= e.derived_tstamp
                        /\ e.derived_tstamp <= DateAsTimestamp(end_date)
                     \/ /\ DateAsTimestamp(end_date) <= e.derived_tstamp
                        /\ e.derived_tstamp <= DateAsTimestamp(start_date)
                  /\ e.ctx # NULL }

\* WHERE derived_tstamp BETWEEN '{start_date}' AND '{end_date}'
\*   AND CONTEXTS_IO_CANDIVORE_USER_BASE_STATS_1 IS NOT NULL   (lines 49-51)
Where(evs, start_date, end_date) ==
    { e \in evs : /\ DateAsTimestamp(start_date) <= e.derived_tstamp
                  /\ e.derived_tstamp <= DateAsTimestamp(end_date)
                  /\ e.ctx # NULL }

\* SELECT ... GROUP BY GEO_CITY (lines 43-46, 52-53)
GroupByCity(evs) ==
    { [city |-> c,
       number_of_users |-> Cardinality({ e.ctx : e \in {x \in evs : x.city = c} }),
       number_of_purchases |->
           Cardinality({ e \in evs : e.city = c /\ e.event_name = "in_app_purchase" })]
      : c \in { e.city : e \in evs } }

\* Rows with equal user counts come in an order SQL leaves open: by city,
\* ascending or descending, stands for it.
ComesBefore(r, q, tie) ==
    \/ r.number_of_users > q.number_of_users
    \/ /\ r.number_of_users = q.number_of_users
       /\ IF tie = "asc" THEN r.city <= q.city ELSE r.city >= q.city

RECURSIVE OrderByUsersDesc(_, _)
\* ORDER BY number_of_users DESC (lines 54-55)
OrderByUsersDesc(rows, tie) ==
    IF rows = {} THEN <<>>
    ELSE LET m == CHOOSE r \in rows : \A q \in rows : ComesBefore(r, q, tie)
         IN  <<m>> \o OrderByUsersDesc(rows \ {m}, tie)

LimitRows == 10

NoLimit(rows) == rows

\* LIMIT 10 (line 56)
Limit(rows) ==
    IF Len(rows) <= LimitRows THEN rows ELSE SubSeq(rows, 1, LimitRows)

\* pd.read_sql(query, engine) on a reachable warehouse (line 59)
CityStats(evs, start_date, end_date, tie) ==
    Limit(OrderByUsersDesc(GroupByCity(Where(evs, start_date, end_date)), tie))

TopN == 10

RECURSIVE NLargest(_, _, _)
\* data.nlargest(10, 'number_of_users'): the n rows with the most users, in
\* descending order, the earlier row first among equals (line 91).
NLargest(df, idxs, n) ==
    IF n = 0 \/ idxs = {} THEN <<>>
    ELSE LET m == CHOOSE i \in idxs : \A j \in idxs :
                     \/ df[i].number_of_users > df[j].number_of_users
                     \/ df[i].number_of_users = df[j].number_of_users /\ i <= j
         IN  <<df[m]>> \o NLargest(df, idxs \ {m}, n - 1)

nlargest(df) == NLargest(df, DOMAIN df, TopN)

TieOrders == {"asc", "desc"}

NoArgs == [start_date |-> 0, end_date |-> 0, tie |-> "asc", ran |-> FALSE]

-----------------------------------------------------------------------------
(* The dashboard: browser sessions re-running main() (lines 61-205).       *)

NumSessions == 2
Sessions == 1..NumSessions

ParamNames == {"account", "user", "password", "warehouse", "database", "schema"}

\* The environments of the process: every variable set, or one of the six
\* absent.
Environments ==
    { [p \in ParamNames |-> "set"] } \cup
    { [p \in ParamNames |-> IF p = absent THEN NONE ELSE "set"] : absent \in ParamNames }

\* The dates picked in the two date inputs (lines 74, 76).
SessionDates == {1, 2}

\* An engine handle; id tells one constructed engine from another.
NoneEngine == [is_none |-> TRUE, id |-> 0]
Engine(n) == [is_none |-> FALSE, id |-> n]

EmptyCache == [filled |-> FALSE, value |-> NoneEngine]
NoHandle == [returned |-> FALSE, value |-> NoneEngine]

\* What the user may type into "Enter User ID" (line 119).
UserIds ==
    { <<>>, <<"u1">>, <<"x", "'", " OR ", "'", "1", "'", "=", "'", "1">> }

\* The f-string of lines 123-140: the input is formatted into the text.
purchase_query(user_id) ==
    <<"SELECT DATE(derived_tstamp) as purchase_date, f.value:user_name::string AS user_name, UNSTRUCT_EVENT_IO_CANDIVORE_IN_APP_PURCHASE_1 as purchase_data, SUM(UNSTRUCT_EVENT_IO_CANDIVORE_IN_APP_PURCHASE_1:iap_price::float) as daily_purchase_amount FROM CANDIVORE_TEST_DB.ATOMIC.EVENTS, LATERAL FLATTEN(input => CONTEXTS_IO_CANDIVORE_USER_BASE_STATS_1) f WHERE f.value:uuid::string = ",
      "'">> \o user_id
    \o <<"'", " AND EVENT_NAME = ", "'", "in_app_purchase", "'",
         " AND UNSTRUCT_EVENT_IO_CANDIVORE_IN_APP_PURCHASE_1 IS NOT NULL GROUP BY DATE(derived_tstamp), f.value:user_name::string, UNSTRUCT_EVENT_IO_CANDIVORE_IN_APP_PURCHASE_1 ORDER BY purchase_date">>

\* The result sets the warehouse answers the user-purchase query with.
SessionResults ==
    { <<>>,
      <<[purchase_date |-> 1, user_name |-> "alice",
         purchase_data |-> <<"{", "iap_price", ":", "1", "}">>]>>,
      <<[purchase_date |-> 1, user_name |-> "alice",
         purchase_data |-> <<"{", "iap_price", ":", "1", "}">>],
        [purchase_date |-> 2, user_name |-> "alice",
         purchase_data |-> <<"{", "iap_price", ":">>]>> }

\* The table the sessions query: two cities, one with two users.
SessionWarehouse == Warehouse(2, 1, 0)

FreshRun ==
    [pc |-> "idle", engine |-> NoneEngine,
     run_pressed |-> FALSE, start_date |-> 0, end_date |-> 0, user_id |-> <<>>,
     stats_status |-> "none", data |-> <<>>,
     purchase_status |-> "none", results |-> <<>>, flatten_raised |-> FALSE,
     sent |-> <<>>, out_main |-> <<>>, out_tab1 |-> <<>>, out_tab2 |-> <<>>]

\* The replay of the elements a cached call emitted: st.error of line 37.
ConnectionMessage(engine) == IF engine.is_none THEN <<"error">> ELSE <<>>

AlwaysCharts(data) ==
    <<"subheader", "plotly_chart", "subheader", "plotly_chart",
      "subheader", "plotly_chart", "metric">>

\* if not data.empty: ... else: st.write(...)   (lines 81-113)
RenderStats(data) ==
    IF data # <<>>
    THEN <<"subheader", "plotly_chart", "subheader", "plotly_chart",
           "subheader", "plotly_chart", "metric">>
    ELSE <<"write:No data available">>

\* if not results.empty: ... else: st.warning(...), inside the try whose
\* handler is st.error (lines 145-205)
RenderPurchases(results) ==
    IF results # <<>>
    THEN <<"subheader", "plotly_chart">> \o
         (IF Flatten(results).raised THEN <<"error">>
                                     ELSE <<"subheader", "dataframe">>)
    ELSE <<"warning:No purchase data found">>

NoRecheck(cache) == FALSE

\* The cache is read again once the computing lock is held: another session
\* may have stored the value meanwhile (line 24).
RecheckUnderLock(cache) == cache.filled

ButtonIgnored(pressed) == TRUE

\* if st.button("Run"):   (line 78)
ButtonGate(pressed) == pressed

Init ==
    /\ snowflake_params \in Environments
    /\ resource_cache = EmptyCache
    /\ body_runs = 0
    /\ first_handle = NoHandle
    /\ run = [s \in Sessions |-> FreshRun]
    /\ events = SessionWarehouse
    /\ stats_args = NoArgs
    /\ stats_data = <<>>
    /\ stats_view = <<>>
    /\ top_10_cities = <<>>
    /\ flat_results = <<>>
    /\ purchase_details_df = NotRun

purevars == <<stats_args, stats_data, stats_view, top_10_cities, flat_results, purchase_details_df>>

\* The framework starts a script run for the session: main() begins, the
\* page is cleared, st.title and st.tabs are emitted (lines 62-64).
Rerun(s) ==
    /\ run[s].pc \in {"idle", "done", "aborted"}
    /\ run' = [run EXCEPT ![s] =
                 [FreshRun EXCEPT !.pc = "init_connection", !.out_main = <<"title">>]]
    /\ UNCHANGED <<snowflake_params, resource_cache, body_runs, first_handle,
                   events, purevars>>

Returned(s, engine) ==
    /\ run' = [run EXCEPT ![s].pc = "tab1", ![s].engine = engine,
                          ![s].out_main = @ \o ConnectionMessage(engine)]
    /\ first_handle' = IF first_handle.returned THEN first_handle
                       ELSE [returned |-> TRUE, value |-> engine]

\* engine = init_connection() (line 67): the memoized call looks its value up.
CacheLookup(s) ==
    /\ run[s].pc = "init_connection"
    /\ IF resource_cache.filled
       THEN Returned(s, resource_cache.value)
       ELSE /\ run' = [run EXCEPT ![s].pc = "compute"]
            /\ UNCHANGED first_handle
    /\ UNCHANGED <<snowflake_params, resource_cache, body_runs, events, purevars>>

\* The miss, with the computing lock held: the body (lines 26-38) runs unless
\* the value has been stored meanwhile.  create_engine(URL(...)) returns an
\* engine or raises; the handler reports it and the call returns None, and
\* the returned value, None included, is stored.
ComputeValue(s) ==
    /\ run[s].pc = "compute"
    /\ IF RecheckUnderLock(resource_cache)
       THEN /\ Returned(s, resource_cache.value)
            /\ UNCHANGED <<resource_cache, body_runs>>
       ELSE \E raised \in BOOLEAN :
              LET engine == IF raised THEN NoneEngine ELSE Engine(body_runs + 1)
              IN  /\ body_runs' = body_runs + 1
                  /\ resource_cache' = [filled |-> TRUE, value |-> engine]
                  /\ Returned(s, engine)
    /\ UNCHANGED <<snowflake_params, events, purevars>>

Attempt(kind, text, engine) == [kind |-> kind, text |-> text, engine |-> engine]

\* The General Statistics tab (lines 70-113).  load_data is called outside
\* any try: what pd.read_sql raises leaves main().
GeneralStatistics(s) ==
    /\ run[s].pc = "tab1"
    /\ \E pressed \in BOOLEAN :
         IF ~ButtonGate(pressed)
         THEN run' = [run EXCEPT ![s].pc = "tab2", ![s].out_tab1 = <<"header">>]
         ELSE \E sd \in SessionDates, ed \in SessionDates :
                LET query == load_data_query(sd, ed)
                    called == [run[s] EXCEPT
                                 !.run_pressed = pressed,
                                 !.start_date = sd, !.end_date = ed,
                                 !.out_tab1 = <<"header">>,
                                 !.sent = Append(@, Attempt("city_stats", query,
                                                            run[s].engine))]
                    raised == [called EXCEPT !.pc = "aborted",
                                             !.stats_status = "raised"]
                IN  IF run[s].engine.is_none
                    THEN run' = [run EXCEPT ![s] = raised]
                    ELSE \/ run' = [run EXCEPT ![s] = raised]
                         \/ \E tie \in TieOrders :
                              LET data == CityStats(events, sd, ed, tie)
                              IN  run' = [run EXCEPT ![s] =
                                     [called EXCEPT
                                        !.pc = "tab2",
                                        !.stats_status = "returned",
                                        !.data = data,
                                        !.out_tab1 = @ \o RenderStats(data)]]
    /\ UNCHANGED <<snowflake_params, resource_cache, body_runs, first_handle,
                   events, purevars>>

\* The Events tab (lines 116-205): everything from building the statement on
\* is inside try ... except Exception: st.error.
EventsTab(s) ==
    /\ run[s].pc = "tab2"
    /\ \E user_id \in UserIds :
         IF user_id = <<>>
         THEN run' = [run EXCEPT ![s].pc = "done", ![s].out_tab2 = <<"header">>]
         ELSE LET query == purchase_query(user_id)
                  called == [run[s] EXCEPT
                               !.pc = "done", !.user_id = user_id,
                               !.out_tab2 = <<"header">>,
                               !.sent = Append(@, Attempt("user_purchases", query,
                                                          run[s].engine))]
                  raised == [called EXCEPT !.purchase_status = "raised",
                                           !.out_tab2 = @ \o <<"error">>]
              IN  IF run[s].engine.is_none
                  THEN run' = [run EXCEPT ![s] = raised]
                  ELSE \/ run' = [run EXCEPT ![s] = raised]
                       \/ \E results \in SessionResults :
                            run' = [run EXCEPT ![s] =
                               [called EXCEPT
                                  !.purchase_status = "returned",
                                  !.results = results,
                                  !.flatten_raised =
                                      results # <<>> /\ Flatten(results).raised,
                                  !.out_tab2 = @ \o RenderPurchases(results)]]
    /\ UNCHANGED <<snowflake_params, resource_cache, body_runs, first_handle,
                   events, purevars>>

Next ==
    \E s \in Sessions :
        \/ Rerun(s)
        \/ CacheLookup(s)
        \/ ComputeValue(s)
        \/ GeneralStatistics(s)
        \/ EventsTab(s)

-----------------------------------------------------------------------------
(* load_data and the top-10 selection on their own, over every table and   *)
(* date range of the bound.                                                *)

MaxCities == 14
InitStats ==
    /\ snowflake_params = [p \in ParamNames |-> "set"]
    /\ resource_cache = EmptyCache
    /\ body_runs = 0
    /\ first_handle = NoHandle
    /\ run = [s \in Sessions |-> FreshRun]
    /\ events \in { Warehouse(n, k, o) :
                      n \in 0..MaxCities, k \in 0..2, o \in 0..4 }
    /\ stats_args = NoArgs
    /\ stats_data = <<>>
    /\ stats_view = <<>>
    /\ top_10_cities = <<>>
    /\ flat_results = <<>>
    /\ purchase_details_df = NotRun

StatsStep ==
    /\ ~stats_args.ran
    /\ \E s \in Dates, e \in Dates, tie \in TieOrders :
         /\ stats_args' = [start_date |-> s, end_date |-> e, tie |-> tie, ran |-> TRUE]
         /\ stats_data' = CityStats(events, s, e, tie)
         /\ stats_view' = RenderStats(CityStats(events, s, e, tie))
         /\ top_10_cities' = nlargest(CityStats(events, s, e, tie))
    /\ UNCHANGED <<snowflake_params, resource_cache, body_runs, first_handle, run,
                   events, flat_results, purchase_details_df>>

-----------------------------------------------------------------------------
(* The flattening step on its own, over every result set of the bound.     *)

InitFlatten ==
    /\ snowflake_params = [p \in ParamNames |-> "set"]
    /\ resource_cache = EmptyCache
    /\ body_runs = 0
    /\ first_handle = NoHandle
    /\ run = [s \in Sessions |-> FreshRun]
    /\ events = {}
    /\ stats_args = NoArgs
    /\ stats_data = <<>>
    /\ stats_view = <<>>
    /\ top_10_cities = <<>>
    /\ flat_results \in QueryResults(PayloadTexts, MaxRows) \ {<<>>}
    /\ purchase_details_df = NotRun

FlattenStep ==
    /\ ~purchase_details_df.ran
    /\ purchase_details_df' = LET f == Flatten(flat_results)
                              IN  [raised |-> f.raised, df |-> f.df, ran |-> TRUE]
    /\ UNCHANGED <<snowflake_params, resource_cache, body_runs, first_handle, run,
                   events, flat_results, stats_args, stats_data, stats_view,
                   top_10_cities>>

vars == <<snowflake_params, resource_cache, body_runs, first_handle, run,
          events, stats_args, stats_data, stats_view, top_10_cities, flat_results,
          purchase_details_df>>

Spec == Init /\ [][Next]_vars

NextStats == StatsStep
SpecStats == InitStats /\ [][NextStats]_vars

NextFlatten == FlattenStep
SpecFlatten == InitFlatten /\ [][NextFlatten]_vars

-----------------------------------------------------------------------------
(* The properties.                                                         *)

AfterInit == {"tab1", "tab2", "done", "aborted"}

\* C1: over all reruns and interleavings of the sessions, the body of
\* init_connection runs at most once, and every call returns the handle the
\* first call returned.
C1_ConstructOnceSameHandle ==
    /\ body_runs <= 1
    /\ \A s \in Sessions :
         run[s].pc \in AfterInit =>
             first_handle.returned /\ run[s].engine = first_handle.value

C1_Witness ==
    \E s, t \in Sessions :
        /\ s # t
        /\ run[s].pc = "compute"
        /\ run[t].pc \in AfterInit
        /\ ~run[t].engine.is_none
        /\ body_runs = 1

\* C2: whichever of the construction and the two queries fails, the run ends
\* with an error message in the view that triggered it, and no exception
\* leaves main().
C2_FailuresEndAsMessages ==
    \A s \in Sessions :
        /\ run[s].pc # "aborted"
        /\ run[s].stats_status = "raised" => "error" \in Range(run[s].out_tab1)
        /\ run[s].purchase_status = "raised" => "error" \in Range(run[s].out_tab2)

\* C3: a query that returns zero rows leaves only its message in the view:
\* no chart, metric, table or error.
C3_EmptyResultMessageOnly ==
    \A s \in Sessions :
        /\ (run[s].stats_status = "returned" /\ run[s].data = <<>>)
             => run[s].out_tab1 = <<"header", "write:No data available">>
        /\ (run[s].purchase_status = "returned" /\ run[s].results = <<>>)
             => run[s].out_tab2 = <<"header", "warning:No purchase data found">>

C3_Witness ==
    \E s \in Sessions :
        /\ run[s].pc = "done"
        /\ run[s].stats_status = "returned" /\ run[s].data = <<>>
        /\ run[s].purchase_status = "returned" /\ run[s].results = <<>>

PayloadIsMalformed(x) == x # <<>> /\ ~json_loads(x).ok

\* C4: a result set with a malformed payload is still flattened: nothing is
\* raised, the table has one row per input row, the malformed row has every
\* payload-derived cell empty and the other rows keep their decoded values.
C4_MalformedRowTolerated ==
    (/\ purchase_details_df.ran
     /\ \E i \in DOMAIN flat_results : PayloadIsMalformed(flat_results[i].purchase_data))
    => /\ ~purchase_details_df.raised
       /\ Len(purchase_details_df.df.rows) = Len(flat_results)
       /\ \A i \in DOMAIN purchase_details_df.df.rows :
            LET row == purchase_details_df.df.rows[i]
                p == decode_payload(flat_results[i].purchase_data)
            IN  \A c \in DOMAIN row \ Range(FixedColumns) :
                    row[c] = IF p.ok /\ c \in Range(p.dict.keys) THEN p.dict.val[c]
                                                                  ELSE NaN

AllValidJson(rs) == \A i \in DOMAIN rs : json_loads(rs[i].purchase_data).ok

Decoded(rs) == [i \in DOMAIN rs |-> json_loads(rs[i].purchase_data).dict]

\* Where key k is first seen: <<row, place in the row's payload>>.
FirstRow(ds, k) == CHOOSE i \in DOMAIN ds :
                       /\ k \in Range(ds[i].keys)
                       /\ \A j \in DOMAIN ds : k \in Range(ds[j].keys) => i <= j
PlaceIn(d, k) == CHOOSE n \in DOMAIN d.keys : d.keys[n] = k
SeenBefore(ds, k, l) ==
    \/ FirstRow(ds, k) < FirstRow(ds, l)
    \/ /\ FirstRow(ds, k) = FirstRow(ds, l)
       /\ PlaceIn(ds[FirstRow(ds, k)], k) < PlaceIn(ds[FirstRow(ds, k)], l)

\* The table df shows the rows rs with the payload keys `keys` as columns.
ShowsKeys(df, rs, keys) ==
    LET ds == Decoded(rs)
        payload_cols == SubSeq(df.columns, 3, Len(df.columns))
    IN  /\ Len(df.rows) = Len(rs)
        /\ Len(df.columns) >= 2
        /\ df.columns[1] = "purchase_date" /\ df.columns[2] = "user_name"
        /\ Range(payload_cols) = keys
        /\ \A a, b \in DOMAIN payload_cols :
             a < b => /\ payload_cols[a] # payload_cols[b]
                      /\ SeenBefore(ds, payload_cols[a], payload_cols[b])
        /\ \A i \in DOMAIN rs :
             /\ DOMAIN df.rows[i] = Range(df.columns)
             /\ df.rows[i]["purchase_date"] = strftime(rs[i].purchase_date)
             /\ df.rows[i]["user_name"] = rs[i].user_name
             /\ \A k \in keys :
                  df.rows[i][k] = IF k \in Range(ds[i].keys) THEN ds[i].val[k]
                                                             ELSE NaN

AllKeys(rs) == UNION { Range(Decoded(rs)[i].keys) : i \in DOMAIN rs }

\* C5 as claimed: for rows with valid JSON payloads the table has one row
\* per input row in order, purchase_date and user_name first, then every
\* payload key once in first-seen order, each cell the row's payload value
\* or null, and the two fixed columns hold the query row's values.
C5_ColumnsAreAllPayloadKeys ==
    (purchase_details_df.ran /\ AllValidJson(flat_results))
    => /\ ~purchase_details_df.raised
       /\ ShowsKeys(purchase_details_df.df, flat_results, AllKeys(flat_results))

\* C5 as amended: the same, with the payload keys other than purchase_date
\* and user_name as the payload-derived columns; a payload key of one of
\* these two names is shown with the query row's value.
C5_ColumnsArePayloadKeysBesideFixed ==
    (purchase_details_df.ran /\ AllValidJson(flat_results))
    => /\ ~purchase_details_df.raised
       /\ ShowsKeys(purchase_details_df.df, flat_results,
                    AllKeys(flat_results) \ Range(FixedColumns))

C5_Witness ==
    /\ purchase_details_df.ran
    /\ AllValidJson(flat_results)
    /\ Len(flat_results) = 2
    /\ "user_name" \in Range(Decoded(flat_results)[1].keys)
    /\ Range(Decoded(flat_results)[2].keys) = {"iap_price", "item"}
    /\ Len(purchase_details_df.df.columns) = 4

\* C6: load_data called with start_date later than end_date returns an empty
\* result, whatever the table holds, and the view shows the no-data message
\* only.
C6_InvertedRangeIsEmpty ==
    (stats_args.ran /\ stats_args.start_date > stats_args.end_date)
    => /\ stats_data = <<>>
       /\ stats_view = <<"write:No data available">>

C6_Witness ==
    /\ stats_args.ran
    /\ stats_args.start_date > stats_args.end_date
    /\ stats_view = <<"write:No data available">>
    /\ \E e \in events :
         /\ e.ctx # NULL
         /\ DateAsTimestamp(stats_args.end_date) <= e.derived_tstamp
         /\ e.derived_tstamp <= DateAsTimestamp(stats_args.start_date)

DayOf(ts) == ts \div 24

\* The events of city c a count may rest on: in [start, end] by date, with a
\* user context.
Eligible(evs, c, start_date, end_date) ==
    { e \in evs : /\ e.city = c
                  /\ start_date <= DayOf(e.derived_tstamp)
                  /\ DayOf(e.derived_tstamp) <= end_date
                  /\ e.ctx # NULL }

\* C7: load_data returns at most 10 rows, non-increasing in number_of_users,
\* each city once, counting only events within [start_date, end_date] that
\* have a user context; the top-10 selection keeps the same rows.
C7_TopTenDescending ==
    stats_args.ran =>
      /\ Len(stats_data) <= 10
      /\ \A i, j \in DOMAIN stats_data :
           i < j => /\ stats_data[i].number_of_users >= stats_data[j].number_of_users
                    /\ stats_data[i].city # stats_data[j].city
      /\ \A i \in DOMAIN stats_data :
           LET el == Eligible(events, stats_data[i].city,
                              stats_args.start_date, stats_args.end_date)
           IN  /\ stats_data[i].number_of_users >= 1
               /\ stats_data[i].number_of_users <= Cardinality({ e.ctx : e \in el })
               /\ stats_data[i].number_of_purchases <=
                    Cardinality({ e \in el : e.event_name = "in_app_purchase" })
      /\ Range(top_10_cities) = Range(stats_data)
      /\ Len(top_10_cities) = Len(stats_data)

C7_Witness ==
    /\ stats_args.ran
    /\ Len(stats_data) = 10
    /\ Cardinality(GroupByCity(Where(events, stats_args.start_date,
                                     stats_args.end_date))) > 10
    /\ stats_data[1].number_of_users > stats_data[10].number_of_users
    /\ stats_data[1].number_of_users = stats_data[2].number_of_users

\* C8: when one of the six environment variables is absent, no connection is
\* built and no query is attempted.
C8_MissingVariableFailsFast ==
    (\E p \in ParamNames : snowflake_params[p] = NONE)
    => /\ body_runs = 0
       /\ \A s \in Sessions : run[s].sent = <<>>

RECURSIVE Skeleton(_, _, _)
\* A statement's structure: its text with the content of every string
\* literal taken out.
Skeleton(text, i, in_literal) ==
    IF i > Len(text) THEN <<>>
    ELSE IF text[i] = "'" THEN <<"'">> \o Skeleton(text, i + 1, ~in_literal)
    ELSE IF in_literal THEN Skeleton(text, i + 1, in_literal)
    ELSE <<text[i]>> \o Skeleton(text, i + 1, in_literal)

\* C9: every statement sent has the structure of the one fixed statement of
\* its kind, whatever the user ID and the dates.
C9_StatementStructureFixed ==
    \A s \in Sessions : \A i \in DOMAIN run[s].sent :
        LET q == run[s].sent[i]
        IN  ~q.engine.is_none =>
              Skeleton(q.text, 1, FALSE) =
                 IF q.kind = "user_purchases"
                 THEN Skeleton(purchase_query(<<"u1">>), 1, FALSE)
                 ELSE Skeleton(load_data_query(1, 1), 1, FALSE)

Count(sent, kind) == Cardinality({ i \in DOMAIN sent : sent[i].kind = kind })

\* C10: a run makes at most one city-statistics query, and only when Run was
\* pressed, and at most one user-purchase query, and only for a non-empty
\* user ID; with neither it sends nothing; and when the flattening fails the
\* Events view holds the chart, then the error message, and no table.
C10_QueriesGatedChartFirst ==
    \A s \in Sessions :
        /\ Count(run[s].sent, "city_stats") <= 1
        /\ Count(run[s].sent, "city_stats") = 1 => run[s].run_pressed
        /\ Count(run[s].sent, "user_purchases") <= 1
        /\ Count(run[s].sent, "user_purchases") = 1 => run[s].user_id # <<>>
        /\ (~run[s].run_pressed /\ run[s].user_id = <<>>) => run[s].sent = <<>>
        /\ run[s].flatten_raised =>
             run[s].out_tab2 = <<"header", "subheader", "plotly_chart", "error">>

C10_Witness ==
    \E s \in Sessions :
        /\ run[s].pc = "done"
        /\ run[s].flatten_raised
        /\ Len(run[s].sent) = 2

=============================================================================
